---- MODULE Spec2Model ----
(***************************************************************************)
(* Model of app.py: the POST /classify_waste endpoint (classify_waste_api) *)
(* and the mock classifier (classify_image_mock) over the module-level     *)
(* WASTE_DATA table.                                                       *)
(*                                                                         *)
(* The server handles each request on a thread of its own.  A request     *)
(* arrives and is in flight until its thread has run the whole handler and *)
(* returned a (status, JSON body) pair, which the client then takes.  The  *)
(* random draws of the classifier (random.randint, random.sample,          *)
(* random.uniform) are nondeterministic choices.                           *)
(***************************************************************************)
EXTENDS Integers, Sequences, FiniteSets, Bags, TLC

VARIABLES
    WASTE_DATA,   \* the module-level dict of app.py
    in_flight,    \* the bag of requests that have arrived and whose handler has not returned
    response      \* <<>> or <<r>>: the response a handler has just returned, until the client takes it

\* One returned response is looked at at a time: the client takes it before
\* the next request arrives or the next handler returns.  Taking a response
\* changes nothing the handlers read, so this leaves out no order of arrivals
\* and returns.

vars == <<WASTE_DATA, in_flight, response>>

(***************************************************************************)
(* The static table, as written in the source.                             *)
(***************************************************************************)
WASTE_DATA_literal ==
    [ m \in { "Plastic Bottle (PET)", "Aluminum Can", "Cardboard Box",
              "Newspaper/Magazine", "Banana Peel/Fruit Scraps",
              "Used Batteries (AA/AAA)", "Light Bulb (Incandescent)",
              "Plastic Film/Bags" } |->
        CASE m = "Plastic Bottle (PET)" ->
               [ category |-> "Recyclable", bin_color |-> "Blue", color |-> "blue",
                 instructions |-> "Rinse thoroughly, remove the cap, and flatten the bottle before placing in the recycling bin. Caps are often recycled separately." ]
          [] m = "Aluminum Can" ->
               [ category |-> "Recyclable", bin_color |-> "Blue", color |-> "blue",
                 instructions |-> "Rinse out all food residue. Do not crush the can entirely, as automatic sorters may mistake crushed cans for general waste." ]
          [] m = "Cardboard Box" ->
               [ category |-> "Recyclable", bin_color |-> "Brown", color |-> "yellow",
                 instructions |-> "Flatten the box completely. Remove all tape and shipping labels. If greasy (like a pizza box), tear off clean parts and put the greasy part in general waste." ]
          [] m = "Newspaper/Magazine" ->
               [ category |-> "Recyclable", bin_color |-> "Blue", color |-> "blue",
                 instructions |-> "Keep dry. Place loose in the recycling bin. Do not tie with string or put in plastic bags." ]
          [] m = "Banana Peel/Fruit Scraps" ->
               [ category |-> "Organic/Compostable", bin_color |-> "Green", color |-> "green",
                 instructions |-> "Place directly into the compost bin or dedicated green waste bin. Do not include any packaging." ]
          [] m = "Used Batteries (AA/AAA)" ->
               [ category |-> "Hazardous/E-Waste", bin_color |-> "Special Collection", color |-> "red",
                 instructions |-> "Tape the terminals to prevent short circuits. Take to a specialized collection point (e.g., library, municipality center, or retail store drop-off)." ]
          [] m = "Light Bulb (Incandescent)" ->
               [ category |-> "General Waste", bin_color |-> "Black/Gray", color |-> "gray",
                 instructions |-> "Wrap in paper or a plastic bag to prevent injury from broken glass and place carefully in the general waste bin." ]
          [] m = "Plastic Film/Bags" ->
               [ category |-> "General Waste", bin_color |-> "Black/Gray", color |-> "gray",
                 instructions |-> "Plastic films and bags jam recycling machinery. Dispose of in general waste, or check for specific local drop-off points." ] ]

(***************************************************************************)
(* Python's `sub in s` on strings.                                         *)
(***************************************************************************)
str_contains(sub, s) ==
    \E i \in 1..(Len(s) - Len(sub) + 1) : SubSeq(s, i, i + Len(sub) - 1) = sub

(***************************************************************************)
(* The random draws.  A call of the handler that reaches the classifier    *)
(* with an image that opens makes one draw of each kind; rnd is the record *)
(* of what the draws gave.                                                 *)
(***************************************************************************)
\* variant: the lower end of the range is 1
random_randint_from_1 == 1..4

\* random.randint(2, 4): the possible values of num_detections
random_randint == 2..4

\* what random.sample gives when it raises ValueError instead of returning
ValueError == <<>>

\* variant: draws with replacement, as random.choices does
random_sample_with_replacement(population, k) == [1..k -> population]

\* random.sample(population, k): the possible results, k distinct elements
\* in some order, or ValueError when k exceeds the population
random_sample(population, k) ==
    IF k > Cardinality(population)
    THEN { ValueError }
    ELSE { s \in [1..k -> population] : \A i, j \in 1..k : i # j => s[i] # s[j] }

\* random.uniform(0.75, 0.99), in hundredths: the two ends of the range
CONF_LOW == 75
CONF_HIGH == 99
random_uniform == {CONF_LOW, CONF_HIGH}

\* the draws of a call that makes none
no_draws == [num_detections |-> 0, detected_materials |-> <<>>, confidences |-> <<>>]

(***************************************************************************)
(* classify_image_mock                                                     *)
(***************************************************************************)
\* variant: the hazardous test looks for 'Waste' instead of 'E-Waste'
summary_bucket_waste(data) ==
    IF data.category = "Recyclable" THEN "recyclable_items"
    ELSE IF str_contains("Hazardous", data.category) \/ str_contains("Waste", data.category)
         THEN "hazardous_items"
         ELSE "general_waste_items"

\* the key of the summary that the loop body increments for one material
summary_bucket(data) ==
    IF data.category = "Recyclable" THEN "recyclable_items"
    ELSE IF str_contains("Hazardous", data.category) \/ str_contains("E-Waste", data.category)
         THEN "hazardous_items"
         ELSE "general_waste_items"

zero_summary == [recyclable_items |-> 0, hazardous_items |-> 0, general_waste_items |-> 0]

\* variant: the loop has no else branch, so a material that is neither
\* recyclable nor hazardous is not counted
RECURSIVE build_summary_no_else(_, _, _)
build_summary_no_else(table, detected_materials, i) ==
    IF i = 0 THEN zero_summary
    ELSE LET prev == build_summary_no_else(table, detected_materials, i - 1)
             b    == summary_bucket(table[detected_materials[i]])
         IN  IF b = "general_waste_items" THEN prev ELSE [prev EXCEPT ![b] = @ + 1]

\* the for loop over detected_materials: summary after the first i materials
RECURSIVE build_summary(_, _, _)
build_summary(table, detected_materials, i) ==
    IF i = 0 THEN zero_summary
    ELSE LET prev == build_summary(table, detected_materials, i - 1)
             b    == summary_bucket(table[detected_materials[i]])
         IN  [prev EXCEPT ![b] = @ + 1]

\* variant: the loop skips a material whose confidence is below 0.80
RECURSIVE confident_indices(_, _)
confident_indices(confidences, i) ==
    IF i = 0 THEN <<>>
    ELSE IF confidences[i] >= 80
         THEN Append(confident_indices(confidences, i - 1), i)
         ELSE confident_indices(confidences, i - 1)

build_materials_gated(table, detected_materials, confidences) ==
    LET kept == confident_indices(confidences, Len(detected_materials))
    IN  [ j \in 1..Len(kept) |->
            LET data == table[detected_materials[kept[j]]]
            IN  [ detected_material |-> detected_materials[kept[j]],
                  confidence        |-> confidences[kept[j]],
                  classification    |-> [ category     |-> data.category,
                                          bin_color    |-> data.bin_color,
                                          color        |-> data.color,
                                          instructions |-> data.instructions ] ] ]

\* the for loop over detected_materials: materials_output
build_materials(table, detected_materials, confidences) ==
    [ i \in 1..Len(detected_materials) |->
        LET data == table[detected_materials[i]]
        IN  [ detected_material |-> detected_materials[i],
              confidence        |-> confidences[i],
              classification    |-> [ category     |-> data.category,
                                      bin_color    |-> data.bin_color,
                                      color        |-> data.color,
                                      instructions |-> data.instructions ] ] ]

\* the except branch
mock_failure(e) ==
    [ success |-> FALSE,
      message |-> "Server processing failed (Error: " \o e \o "). Ensure the input file is a valid image.",
      total_materials_detected |-> 0,
      summary |-> zero_summary,
      materials |-> <<>> ]

\* Image.open(io.BytesIO(image_bytes)) succeeds
image_opens(image_bytes) == image_bytes = "image_bytes"

\* classify_image_mock(image_bytes) when the random calls give rnd: the
\* value it returns, with the value of the local detected_materials at that
\* point (<<>> when the call never assigned it).
classify_image_mock(table, image_bytes, rnd) ==
    IF ~image_opens(image_bytes)
    THEN [ returns |-> mock_failure("cannot identify image file"), detected_materials |-> <<>> ]
    ELSE IF rnd.detected_materials = ValueError
    THEN [ returns |-> mock_failure("Sample larger than population or is negative"),
           detected_materials |-> <<>> ]
    ELSE LET detected_materials == rnd.detected_materials
             materials_output   == build_materials(table, detected_materials, rnd.confidences)
             summary            == build_summary(table, detected_materials, Len(detected_materials))
         IN  [ returns |-> [ success |-> TRUE,
                             message |-> "Classification successful.",
                             total_materials_detected |-> Len(materials_output),
                             summary |-> summary,
                             materials |-> materials_output ],
               detected_materials |-> detected_materials ]

(***************************************************************************)
(* Requests.  request.files maps the names of the file parts to an         *)
(* uploaded file (its filename and what reading its stream gives);         *)
(* request.form maps the names of the other form fields to their text.     *)
(***************************************************************************)
no_parts == <<>>

image_upload == [filename |-> "waste.png", stream |-> "image_bytes"]

Requests ==
    { \* nothing at all
      [files |-> no_parts, form |-> no_parts],
      \* a `file` part submitted with no file chosen
      [files |-> ("file" :> [filename |-> "", stream |-> "junk_bytes"]), form |-> no_parts],
      \* a `file` part holding an image
      [files |-> ("file" :> image_upload), form |-> no_parts],
      \* a `file` part holding bytes that are not an image
      [files |-> ("file" :> [filename |-> "notes.txt", stream |-> "junk_bytes"]), form |-> no_parts],
      \* a `file` part whose stream cannot be read
      [files |-> ("file" :> [filename |-> "waste.png", stream |-> "io_error"]), form |-> no_parts],
      \* the same image in a part named `image`
      [files |-> ("image" :> image_upload), form |-> no_parts],
      \* the same image as base64 text in the field image_base64
      [files |-> no_parts, form |-> ("image_base64" :> "aW1hZ2VfYnl0ZXM=")],
      \* the same, as a data URL
      [files |-> no_parts, form |-> ("image_base64" :> "data:image/png;base64,aW1hZ2VfYnl0ZXM=")] }

(***************************************************************************)
(* classify_waste_api                                                      *)
(***************************************************************************)
\* jsonify(...), status
http_response(status, body) == [status |-> status, body |-> body]

\* what the handler did on the way to its return, besides the response:
\* whether it called classify_image_mock, and the classifier's local
\* detected_materials
handler_return(resp, classifier_called, detected_materials) ==
    [ status |-> resp.status, body |-> resp.body,
      classifier_called |-> classifier_called,
      detected_materials |-> detected_materials ]

\* 'file' not in request.files
no_file_part(request) == "file" \notin DOMAIN request.files

\* variant: the filename is not checked
no_selected_file_unchecked(file) == FALSE

\* file.filename == ''
no_selected_file(file) == file.filename = ""

\* the status the handler gives to the value of classify_image_mock
results_status(results) == IF results.success THEN 200 ELSE 500

\* file.read(): the bytes of the upload, unless reading fails
read_raises(file) == file.stream = "io_error"

\* classify_waste_api() for one request when the random calls give rnd.
\* After the filename check `if file:` holds, because an uploaded file is
\* true when its filename is not empty.
classify_waste_api(table, request, rnd) ==
    IF no_file_part(request)
    THEN handler_return(
             http_response(400, [success |-> FALSE, message |-> "No file part in the request"]),
             FALSE, <<>>)
    ELSE LET file == request.files["file"]
         IN  IF no_selected_file(file)
             THEN handler_return(
                      http_response(400, [success |-> FALSE, message |-> "No selected file"]),
                      FALSE, <<>>)
             ELSE IF read_raises(file)
                  THEN handler_return(
                           http_response(500,
                               [success |-> FALSE,
                                message |-> "Internal Server Error during file reading: I/O operation failed"]),
                           FALSE, <<>>)
                  ELSE LET image_bytes == file.stream
                           call        == classify_image_mock(table, image_bytes, rnd)
                           results     == call.returns
                       IN  handler_return(http_response(results_status(results), results),
                                          TRUE, call.detected_materials)

\* the handler gets as far as the random calls of the classifier
draws_made(request) ==
    /\ ~no_file_part(request)
    /\ ~no_selected_file(request.files["file"])
    /\ ~read_raises(request.files["file"])
    /\ image_opens(request.files["file"].stream)

(***************************************************************************)
(* The server.                                                             *)
(***************************************************************************)
\* the number of requests the model lets be in flight at once
MaxInFlight == 2

Init ==
    /\ WASTE_DATA = WASTE_DATA_literal
    /\ in_flight = EmptyBag
    /\ response = <<>>

\* a request arrives and a thread is started for it
Receive ==
    /\ BagCardinality(in_flight) < MaxInFlight
    /\ response = <<>>
    /\ \E request \in Requests : in_flight' = in_flight (+) SetToBag({request})
    /\ UNCHANGED <<WASTE_DATA, response>>

\* variant: the handler removes the materials it reported from the table
Return_consuming(request, r) ==
    /\ response' = << [ request |-> request,
                        status  |-> r.status,
                        body    |-> r.body,
                        classifier_called  |-> r.classifier_called,
                        detected_materials |-> r.detected_materials ] >>
    /\ in_flight' = in_flight (-) SetToBag({request})
    /\ WASTE_DATA' = [ m \in DOMAIN WASTE_DATA \ { r.detected_materials[i] : i \in 1..Len(r.detected_materials) }
                         |-> WASTE_DATA[m] ]

\* the handler of a request returns r
Return(request, r) ==
    /\ response' = << [ request |-> request,
                        status  |-> r.status,
                        body    |-> r.body,
                        classifier_called  |-> r.classifier_called,
                        detected_materials |-> r.detected_materials ] >>
    /\ in_flight' = in_flight (-) SetToBag({request})
    /\ UNCHANGED WASTE_DATA

\* the thread of an in-flight request runs classify_waste_api
Handle(request) ==
    /\ BagIn(request, in_flight)
    /\ response = <<>>
    /\ IF draws_made(request)
       THEN \E num_detections \in random_randint :
            \E detected_materials \in random_sample(DOMAIN WASTE_DATA, num_detections) :
            \E confidences \in [1..Len(detected_materials) -> random_uniform] :
                Return(request, classify_waste_api(WASTE_DATA, request,
                                    [ num_detections     |-> num_detections,
                                      detected_materials |-> detected_materials,
                                      confidences        |-> confidences ]))
       ELSE Return(request, classify_waste_api(WASTE_DATA, request, no_draws))

\* the client takes the response
Deliver ==
    /\ response # <<>>
    /\ response' = <<>>
    /\ UNCHANGED <<WASTE_DATA, in_flight>>

Next ==
    \/ Receive
    \/ \E request \in Requests : Handle(request)
    \/ Deliver

Spec == Init /\ [][Next]_vars

(***************************************************************************)
(* Properties.                                                             *)
(***************************************************************************)
Responded == response # <<>>

\* the response a handler has just returned (when Responded)
resp == response[1]

\* the `file` part of a request holds a named upload whose bytes are read
\* and are (are not) an image
file_is_image(request) ==
    /\ "file" \in DOMAIN request.files
    /\ request.files["file"].filename # ""
    /\ request.files["file"].stream = "image_bytes"

file_is_not_image(request) ==
    /\ "file" \in DOMAIN request.files
    /\ request.files["file"].filename # ""
    /\ request.files["file"].stream = "junk_bytes"

\* the request has no `file` part, or one with an empty filename
no_image_provided(request) ==
    \/ "file" \notin DOMAIN request.files
    \/ request.files["file"].filename = ""

\* the number of materials of a body whose category label satisfies P
count_materials(body, P(_)) ==
    Cardinality({ i \in 1..Len(body.materials) : P(body.materials[i].classification.category) })

\* C1: in every body that classify_image_mock produced, on success or on
\* failure, the three counts of the summary add up to the number of entries
\* of materials.
C1_SummaryCountsSumToMaterials ==
    Responded /\ resp.classifier_called =>
        resp.body.summary.recyclable_items + resp.body.summary.hazardous_items
            + resp.body.summary.general_waste_items = Len(resp.body.materials)

\* a success response in which each of the three buckets counts a material
C1_Witness ==
    /\ Responded
    /\ resp.classifier_called
    /\ resp.body.success
    /\ resp.body.summary.recyclable_items >= 1
    /\ resp.body.summary.hazardous_items >= 1
    /\ resp.body.summary.general_waste_items >= 1

\* C2: in every response that has materials, their detected_material
\* identifiers are keys of the WASTE_DATA table and are pairwise distinct.
C2_IdentifiersAreDistinctKeys ==
    Responded /\ "materials" \in DOMAIN resp.body =>
        LET materials == resp.body.materials
        IN  /\ \A i \in 1..Len(materials) :
                  materials[i].detected_material \in DOMAIN WASTE_DATA_literal
            /\ \A i, j \in 1..Len(materials) :
                  i # j => materials[i].detected_material # materials[j].detected_material

\* a response with four materials
C2_Witness ==
    /\ Responded
    /\ "materials" \in DOMAIN resp.body
    /\ Len(resp.body.materials) = 4

\* C3: a request with no `file` part, or with a `file` part whose filename
\* is empty, gets status 400 with success = false, and classify_image_mock
\* is not called for it.
C3_NoImageIs400 ==
    Responded /\ no_image_provided(resp.request) =>
        /\ resp.status = 400
        /\ resp.body.success = FALSE
        /\ ~resp.classifier_called

\* the response to a `file` part with an empty filename
C3_Witness ==
    /\ Responded
    /\ "file" \in DOMAIN resp.request.files
    /\ resp.request.files["file"].filename = ""
    /\ resp.status = 400

\* C4: a request whose `file` bytes are present but are not an image gets
\* status 400 with success = false and a message about invalid image
\* content.
C4_InvalidImageIs400 ==
    Responded /\ file_is_not_image(resp.request) =>
        /\ resp.status = 400
        /\ resp.body.success = FALSE
        /\ str_contains("valid image", resp.body.message)

\* C5: a request whose `file` part holds an image that opens gets status
\* 200 with success = true, and materials lists every sampled material, in
\* the order sampled, whatever the confidences drawn.
C5_AlwaysReport ==
    Responded /\ file_is_image(resp.request) =>
        /\ resp.status = 200
        /\ resp.body.success = TRUE
        /\ resp.detected_materials # <<>>
        /\ Len(resp.body.materials) = Len(resp.detected_materials)
        /\ \A i \in 1..Len(resp.detected_materials) :
              resp.body.materials[i].detected_material = resp.detected_materials[i]

\* a success response in which every confidence drawn is the lowest one
C5_Witness ==
    /\ Responded
    /\ file_is_image(resp.request)
    /\ resp.status = 200
    /\ Len(resp.detected_materials) = 3
    /\ \A i \in 1..Len(resp.body.materials) : resp.body.materials[i].confidence = CONF_LOW

\* C6: every response with success = false has a message, a
\* total_materials_detected of 0, a summary of three zeros and an empty
\* materials list.
C6_FailureShape ==
    Responded /\ ~resp.body.success =>
        /\ {"message", "total_materials_detected", "summary", "materials"} \subseteq DOMAIN resp.body
        /\ resp.body.total_materials_detected = 0
        /\ resp.body.summary = zero_summary
        /\ resp.body.materials = <<>>

\* C7: an image supplied in the part `image`, or as base64 text in the
\* field image_base64, is accepted as it is in the part `file`: status 200
\* with success = true.
C7_ImageSourceEquivalence ==
    Responded /\ ("image" \in DOMAIN resp.request.files
                    \/ "image_base64" \in DOMAIN resp.request.form) =>
        /\ resp.status = 200
        /\ resp.body.success = TRUE

\* C8: a response with success = true has between 2 and 4 materials, no more
\* than the table has entries, and total_materials_detected is their number;
\* and the draw never fails for lack of entries: a `file` image always
\* succeeds.
C8_MaterialCount ==
    Responded =>
        /\ resp.body.success =>
              LET n == Len(resp.body.materials)
              IN  /\ 2 <= n /\ n <= 4
                  /\ n <= Cardinality(DOMAIN WASTE_DATA)
                  /\ resp.body.total_materials_detected = n
        /\ file_is_image(resp.request) => resp.body.success

\* a success response with two materials
C8_Witness ==
    /\ Responded
    /\ resp.body.success
    /\ resp.body.total_materials_detected = 2

\* the bucket the substring rule gives a category label
rule_recyclable(category) == str_contains("Recyclable", category)

rule_hazardous(category) ==
    /\ ~rule_recyclable(category)
    /\ str_contains("Hazardous", category) \/ str_contains("E-Waste", category)

rule_general(category) == ~rule_recyclable(category) /\ ~rule_hazardous(category)

\* C9: in a success response each count of the summary is the number of
\* materials that the substring rule puts in that bucket.
C9_BucketsFollowSubstringRule ==
    Responded /\ resp.body.success =>
        /\ resp.body.summary.recyclable_items = count_materials(resp.body, rule_recyclable)
        /\ resp.body.summary.hazardous_items = count_materials(resp.body, rule_hazardous)
        /\ resp.body.summary.general_waste_items = count_materials(resp.body, rule_general)

\* a success response that reports an organic, a general-waste, a hazardous
\* and a recyclable material
C9_Witness ==
    /\ Responded
    /\ resp.body.success
    /\ \E i, j, k, l \in 1..Len(resp.body.materials) :
          /\ resp.body.materials[i].classification.category = "Organic/Compostable"
          /\ resp.body.materials[j].classification.category = "General Waste"
          /\ resp.body.materials[k].classification.category = "Hazardous/E-Waste"
          /\ resp.body.materials[l].classification.category = "Recyclable"

\* what a response to a request must be, from the request and the table as
\* written in the source alone
expected_outcome(request, r) ==
    IF no_image_provided(request)
    THEN r.status = 400 /\ r.body.success = FALSE
    ELSE IF file_is_image(request)
    THEN /\ r.status = 200
         /\ r.body.success = TRUE
         /\ Len(r.body.materials) \in 2..4
         /\ \A i \in 1..Len(r.body.materials) :
               LET m == r.body.materials[i]
               IN  /\ m.detected_material \in DOMAIN WASTE_DATA_literal
                   /\ m.classification.category = WASTE_DATA_literal[m.detected_material].category
                   /\ m.classification.bin_color = WASTE_DATA_literal[m.detected_material].bin_color
                   /\ m.classification.color = WASTE_DATA_literal[m.detected_material].color
                   /\ m.classification.instructions = WASTE_DATA_literal[m.detected_material].instructions
                   /\ CONF_LOW <= m.confidence /\ m.confidence <= CONF_HIGH
    ELSE r.status = 500 /\ r.body.success = FALSE

\* C10: whatever requests came before and whatever requests are in flight,
\* WASTE_DATA is the table of the source, and the response to a request is
\* one that its own input allows.
C10_Stateless ==
    /\ WASTE_DATA = WASTE_DATA_literal
    /\ Responded => expected_outcome(resp.request, resp)

\* a success response returned while another request is in flight
C10_Witness ==
    /\ Responded
    /\ resp.body.success
    /\ in_flight # EmptyBag

====
